---- MODULE Spec2Model ----
(***************************************************************************)
(* A model of run.py: the versioned step decorator, archive root          *)
(* detection and extraction, zip post-processing, and the shallow clone   *)
(* of msquic with its submodules.                                         *)
(*                                                                         *)
(* Strings the program inspects character by character (version strings,  *)
(* archive member names, file names, link targets) are sequences of       *)
(* one-character strings.  A filesystem path is a sequence of segments,   *)
(* each segment a character sequence.                                     *)
(***************************************************************************)
EXTENDS Integers, Sequences, FiniteSets, TLC

VARIABLES
    fs,          \* the filesystem
    gateLast,    \* the last call of a versioned step
    infos,       \* the member list handed to root detection
    rootResult,  \* what root detection returned for infos
    windows,     \* platform.system() == 'Windows'
    xlast,       \* the last call of extract
    zlast,       \* the last zip file extracted, with its member order
    git,         \* main's progress through the clone of msquic
    race         \* concurrent calls of one versioned step

vars == <<fs, gateLast, infos, rootResult, windows, xlast, zlast, git, race>>

gateVars == <<gateLast>>
rootVars == <<infos, rootResult>>
extractVars == <<windows, xlast, zlast>>
gitVars == <<git>>
raceVars == <<race>>

\* Optional[str]
NoneDir == [some |-> FALSE, name |-> <<>>]
SomeDir(d) == [some |-> TRUE, name |-> d]

(* The values the variables hold before anything has run *)

NoGateCall ==
    [called |-> FALSE, version |-> <<>>, kw |-> "unset",
     before |-> [exists |-> FALSE, data |-> <<>>],
     seen |-> [exists |-> FALSE, data |-> <<>>],
     invoked |-> 0, raised |-> FALSE, wrote |-> FALSE]

IdleGate == gateLast = NoGateCall

IdleRoot ==
    /\ infos = <<>>
    /\ rootResult = [by |-> "none", res |-> NoneDir]

NoExtractCall ==
    [called |-> FALSE, file |-> <<>>, fmt |-> "none", filetype |-> "none",
     members |-> {}, name |-> <<>>, stale |-> {}, status |-> "none",
     opener |-> "none", root |-> NoneDir]

NoZipCall ==
    [called |-> FALSE, listing |-> <<>>, status |-> "none", root |-> NoneDir]

NoRun ==
    [pc |-> "idle", pin |-> "none", todo |-> <<>>, url |-> <<"none">>,
     prior |-> "absent", fetched |-> 0]

IdleGit == git = NoRun

NoRace == [version |-> <<>>, start |-> [exists |-> FALSE, data |-> <<>>], procs |-> <<>>]

IdleRace == race = NoRace

IdleExtract ==
    /\ windows = FALSE
    /\ xlast = NoExtractCall
    /\ zlast = NoZipCall

----------------------------------------------------------------------------
(* Character-sequence helpers: str.strip, str.rstrip, str.find, endswith.  *)

Whitespace == {" ", "\n"}

RECURSIVE LStripSet(_, _)
LStripSet(s, cs) ==
    IF s = <<>> THEN s
    ELSE IF Head(s) \in cs THEN LStripSet(Tail(s), cs) ELSE s

RECURSIVE RStripSet(_, _)
RStripSet(s, cs) ==
    IF s = <<>> THEN s
    ELSE IF s[Len(s)] \in cs THEN RStripSet(SubSeq(s, 1, Len(s) - 1), cs) ELSE s

\* str.strip(): leading and trailing whitespace removed
Strip(s) == RStripSet(LStripSet(s, Whitespace), Whitespace)

\* str.find(c): 0-based index of the first c, or -1
Find(s, c) ==
    IF \E i \in 1..Len(s) : s[i] = c
    THEN (CHOOSE i \in 1..Len(s) : s[i] = c /\ \A j \in 1..(i - 1) : s[j] # c) - 1
    ELSE -1

EndsWith(s, suf) ==
    /\ Len(s) >= Len(suf)
    /\ SubSeq(s, Len(s) - Len(suf) + 1, Len(s)) = suf

\* All character sequences over cs of length at most n
StringsUpTo(cs, n) == UNION {[1..k -> cs] : k \in 0..n}

----------------------------------------------------------------------------
(* The filesystem: a function from the existing paths to their nodes.  The *)
(* root <<>> always exists and is a directory.                             *)

DirNode == [kind |-> "dir", data |-> <<>>, mode |-> 0]
FileNode(data, mode) == [kind |-> "file", data |-> data, mode |-> mode]
LinkNode(target) == [kind |-> "link", data |-> target, mode |-> 0]

EmptyFs == [p \in {} |-> DirNode]

Put(f, p, node) == [q \in (DOMAIN f) \cup {p} |-> IF q = p THEN node ELSE f[q]]
Drop(f, ps) == [q \in (DOMAIN f) \ ps |-> f[q]]

Parent(p) == SubSeq(p, 1, Len(p) - 1)
IsPrefix(p, q) == Len(p) <= Len(q) /\ SubSeq(q, 1, Len(p)) = p

\* A '/'-separated string as path segments (empty segments dropped)
RECURSIVE Split(_)
Split(s) ==
    IF s = <<>> THEN <<>>
    ELSE LET n == Find(s, "/") IN
         IF n = -1 THEN <<s>>
         ELSE IF n = 0 THEN Split(Tail(s))
         ELSE <<SubSeq(s, 1, n)>> \o Split(SubSeq(s, n + 2, Len(s)))

\* os.path.join(dir, s) for a relative or absolute string s
JoinStr(dir, s) == IF s # <<>> /\ Head(s) = "/" THEN Split(s) ELSE dir \o Split(s)

\* The path p names after following a symbolic link at its last component
\* (as stat does); ok is FALSE when nothing is there.
RECURSIVE Follow(_, _, _)
Follow(f, p, fuel) ==
    IF p = <<>> THEN [ok |-> TRUE, path |-> p]
    ELSE IF p \notin DOMAIN f THEN [ok |-> FALSE, path |-> p]
    ELSE IF f[p].kind = "link"
         THEN IF fuel = 0 THEN [ok |-> FALSE, path |-> p]
              ELSE Follow(f, JoinStr(Parent(p), f[p].data), fuel - 1)
         ELSE [ok |-> TRUE, path |-> p]

Stat(f, p) == Follow(f, p, Cardinality(DOMAIN f))

KindAt(f, p) == IF p = <<>> THEN "dir" ELSE f[p].kind

PathExists(f, p) == Stat(f, p).ok
IsFile(f, p) == Stat(f, p).ok /\ KindAt(f, Stat(f, p).path) = "file"
IsDir(f, p) == Stat(f, p).ok /\ KindAt(f, Stat(f, p).path) = "dir"
IsLink(f, p) == p \in DOMAIN f /\ f[p].kind = "link"

\* shutil.rmtree: the directory and everything under it
RmTree(f, p) == Drop(f, {q \in DOMAIN f : IsPrefix(p, q)})

\* an rm_rf that removes files and links and leaves directories alone
rm_rf_files_only(f, p) ==
    IF ~PathExists(f, p) THEN f
    ELSE IF IsFile(f, p) \/ IsLink(f, p) THEN Drop(f, {p}) ELSE f

rm_rf(f, p) ==
    IF ~PathExists(f, p) THEN f
    ELSE LET f1 == IF IsFile(f, p) \/ IsLink(f, p) THEN Drop(f, {p}) ELSE f
         IN  IF IsDir(f1, p) THEN RmTree(f1, p) ELSE f1

\* os.makedirs(p, exist_ok=True): p and its missing ancestors
MakeDirs(f, p) ==
    LET missing == {SubSeq(p, 1, k) : k \in 1..Len(p)} \ DOMAIN f
    IN  [q \in (DOMAIN f) \cup missing |-> IF q \in missing THEN DirNode ELSE f[q]]

mkdir_p(f, p) == IF PathExists(f, p) THEN f ELSE MakeDirs(f, p)

\* The paths below p, relative to p
Below(f, p) ==
    {SubSeq(q, Len(p) + 1, Len(q)) : q \in {r \in DOMAIN f : IsPrefix(p, r) /\ r # p}}

----------------------------------------------------------------------------
(* _is_single_dir: does the whole archive sit in one top-level directory?  *)

\* a loop that keeps the last directory seen instead of comparing
SingleDirLoopLast(ms, dirname) ==
    IF ms = <<>> THEN dirname
    ELSE LET accept[i \in 0..Len(ms)] ==
                 IF i = 0 THEN TRUE
                 ELSE /\ accept[i - 1]
                      /\ (Find(RStripSet(ms[i].name, {"/"}), "/") = -1
                             => ms[i].isdir)
             last == ms[Len(ms)]
             s == RStripSet(last.name, {"/"})
             n == Find(s, "/")
         IN  IF accept[Len(ms)]
             THEN SomeDir(IF n = -1 THEN s ELSE SubSeq(last.name, 1, n))
             ELSE NoneDir

\* a loop that steps over a file at the archive root instead of giving up
RECURSIVE SingleDirLoopSkipFiles(_, _)
SingleDirLoopSkipFiles(ms, dirname) ==
    IF ms = <<>> THEN dirname
    ELSE LET info == Head(ms)
             name == info.name
             n == Find(RStripSet(name, {"/"}), "/")
         IN  IF n = -1 /\ ~info.isdir
             THEN SingleDirLoopSkipFiles(Tail(ms), dirname)
             ELSE LET dir == IF n = -1 THEN RStripSet(name, {"/"})
                             ELSE SubSeq(name, 1, n)
                  IN  IF dirname.some /\ dirname.name # dir THEN NoneDir
                      ELSE SingleDirLoopSkipFiles(Tail(ms), SomeDir(dir))

\* lines 209-224: the loop over the members (name, isdir), with the
\* directory name found so far
RECURSIVE SingleDirLoop(_, _)
SingleDirLoop(ms, dirname) ==
    IF ms = <<>> THEN dirname
    ELSE LET info == Head(ms)
             name == info.name
             n == Find(RStripSet(name, {"/"}), "/")
         IN  IF n = -1 /\ ~info.isdir THEN NoneDir
             ELSE LET dir == IF n = -1 THEN RStripSet(name, {"/"})
                             ELSE SubSeq(name, 1, n)
                  IN  IF dirname.some /\ dirname.name # dir THEN NoneDir
                      ELSE SingleDirLoop(Tail(ms), SomeDir(dir))

is_single_dir(ms) == SingleDirLoop(ms, NoneDir)

\* TarInfo.isdir(): the member's type
IsDirTar(e) == e.type = "dir"
\* ZipInfo.is_dir(): the name ends with a slash
IsDirZip(e) == e.name # <<>> /\ e.name[Len(e.name)] = "/"

is_single_dir_tar(t) ==
    is_single_dir([i \in 1..Len(t) |-> [name |-> t[i].name, isdir |-> IsDirTar(t[i])]])

is_single_dir_zip(z) ==
    is_single_dir([i \in 1..Len(z) |-> [name |-> z[i].name, isdir |-> IsDirZip(z[i])]])

----------------------------------------------------------------------------
(* Archives and extract.  A member is [name, type, mode, data]: type is    *)
(* the tar member type ("dir", "file", "link"; a zip member has no type of *)
(* its own and is a directory when its name ends with a slash), mode is    *)
(* st_mode (for a zip member external_attr >> 16), data is the content, or *)
(* for a symbolic link the target.                                         *)

\* The mode of a file created by open(..., 'w') or by ZipFile.extractall
\* under the usual umask: 0o644
DefaultFileMode == 420

\* mode & 0o777 is mode % PermMask
PermMask == 512

\* (mod & 0o120000) == 0o120000: bits 15 and 13 are both set
IsSymlinkMode(mod) == (mod \div 32768) % 2 = 1 /\ (mod \div 8192) % 2 = 1

DirMode == 16877        \* 0o040755
RegMode == 33188        \* 0o100644
ExeMode == 33261        \* 0o100755
LnkMode == 41471        \* 0o120777

TarMember(name, type, data) ==
    [name |-> name, type |-> type, data |-> data,
     mode |-> IF type = "dir" THEN DirMode ELSE RegMode]

ZipMember(name, mode, data) ==
    [name |-> name, type |-> "zip", data |-> data, mode |-> mode]

\* TarFile.extractall(base): modes and symbolic links as stored
RECURSIVE TarExtractAll(_, _, _)
TarExtractAll(f, base, t) ==
    IF t = <<>> THEN f
    ELSE LET e == Head(t)
             p == JoinStr(base, e.name)
             f1 == IF e.type = "dir" THEN MakeDirs(f, p)
                   ELSE IF e.type = "link"
                   THEN Put(MakeDirs(f, Parent(p)), p, LinkNode(e.data))
                   ELSE Put(MakeDirs(f, Parent(p)), p,
                            FileNode(e.data, e.mode % PermMask))
         IN  TarExtractAll(f1, base, Tail(t))

\* ZipFile.extractall(base): every non-directory member becomes a regular
\* file holding the member's data, with the default mode
RECURSIVE ZipExtractAll(_, _, _)
ZipExtractAll(f, base, z) ==
    IF z = <<>> THEN f
    ELSE LET e == Head(z)
             p == JoinStr(base, e.name)
             f1 == IF IsDirZip(e) THEN MakeDirs(f, p)
                   ELSE Put(MakeDirs(f, Parent(p)), p,
                            FileNode(e.data, DefaultFileMode))
         IN  ZipExtractAll(f1, base, Tail(z))

\* os.chmod(p, perms): follows a symbolic link to the node it names
Chmod(f, p, perms) ==
    LET q == Stat(f, p).path IN
    IF q = <<>> THEN f ELSE [f EXCEPT ![q].mode = perms]

\* lines 245-252: the placeholder of a symbolic link member is read,
\* removed and, when the target exists seen from the link's directory,
\* replaced by a symbolic link
ZipRelink(f, filepath) ==
    LET src == f[filepath].data
        f1 == Drop(f, {filepath})
    IN  IF src # <<>> /\ PathExists(f1, JoinStr(Parent(filepath), src))
        THEN Put(f1, filepath, LinkNode(src))
        ELSE f1

\* a post-processing step that leaves the placeholders in place
ZipPostOneNoLink(f, e, path) ==
    LET filepath == JoinStr(path, e.name) IN
    IF IsDirZip(e) THEN f
    ELSE IF PathExists(f, filepath) THEN Chmod(f, filepath, e.mode % PermMask)
    ELSE f

\* lines 241-255: one turn of the loop over the members
ZipPostOne(f, e, path) ==
    LET filepath == JoinStr(path, e.name) IN
    IF IsDirZip(e) THEN f
    ELSE LET f1 == IF IsSymlinkMode(e.mode) THEN ZipRelink(f, filepath) ELSE f
         IN  IF PathExists(f1, filepath)
             THEN Chmod(f1, filepath, e.mode % PermMask)
             ELSE f1

RECURSIVE ZipPost(_, _, _)
ZipPost(f, z, path) ==
    IF z = <<>> THEN f ELSE ZipPost(ZipPostOne(f, Head(z), path), Tail(z), path)

\* _extractzip(z, path) on a Windows host or not
extractzip(f, z, path, win) ==
    LET f0 == ZipExtractAll(f, path, z) IN
    IF win THEN f0 ELSE ZipPost(f0, z, path)

\* os.replace(src, dst) of a directory: dst must be absent or an empty
\* directory
Replace(f, src, dst) ==
    LET under == {q \in DOMAIN f : IsPrefix(src, q)}
        moved(q) == dst \o SubSeq(q, Len(src) + 1, Len(q))
        free == \/ dst \notin DOMAIN f
                \/ /\ f[dst].kind = "dir"
                   /\ ~\E q \in DOMAIN f : q # dst /\ IsPrefix(dst, q)
    IN  IF src \notin DOMAIN f \/ ~free THEN [ok |-> FALSE, fs |-> f]
        ELSE [ok |-> TRUE,
              fs |-> [q \in ((DOMAIN f) \ under) \cup {moved(r) : r \in under} |->
                         IF \E r \in under : moved(r) = q
                         THEN f[CHOOSE r \in under : moved(r) = q]
                         ELSE f[q]]]

TarGzSuffix == <<".", "t", "a", "r", ".", "g", "z">>
ZipSuffix == <<".", "z", "i", "p">>

\* lines 283, 298, 315: which branch of extract runs
Opener(file, filetype) ==
    IF filetype = "gzip" \/ EndsWith(file, TarGzSuffix) THEN "tar"
    ELSE IF filetype = "zip" \/ EndsWith(file, ZipSuffix) THEN "zip"
    ELSE "none"

\* lines 285-297 and 300-314: the archive is opened and unpacked
Unpack(f, opener, members, output_dir, path, win) ==
    LET dir == IF opener = "tar" THEN is_single_dir_tar(members)
               ELSE is_single_dir_zip(members)
        all(g, base) == IF opener = "tar" THEN TarExtractAll(g, base, members)
                        ELSE extractzip(g, members, base, win)
    IN  IF ~dir.some
        THEN [status |-> "ok", root |-> dir,
              fs |-> all(MakeDirs(f, path), path)]
        ELSE LET path2 == JoinStr(output_dir, dir.name)
                 f3 == all(rm_rf(f, path2), output_dir)
             IN  IF path # path2
                 THEN LET r == Replace(f3, path2, path) IN
                      [status |-> IF r.ok THEN "ok" ELSE "oserror",
                       root |-> dir, fs |-> r.fs]
                 ELSE [status |-> "ok", root |-> dir, fs |-> f3]

\* extract(file, output_dir, output_dirname, filetype) of an archive file
\* whose bytes are in format fmt ("tar" or "zip") with the given members.
\* filetype is "none" when the caller passes no hint.
extract(f, file, fmt, members, output_dir, output_dirname, filetype, win) ==
    LET path == output_dir \o <<output_dirname>>
        opener == Opener(file, filetype)
    IN  IF opener = "none"
        THEN [status |-> "unsupported", opener |-> opener, root |-> NoneDir,
              fs |-> f]
        ELSE IF opener # fmt
        THEN \* tarfile.open or ZipFile raises on the other format's bytes
             [status |-> "badarchive", opener |-> opener, root |-> NoneDir,
              fs |-> rm_rf(f, path)]
        ELSE LET u == Unpack(rm_rf(f, path), opener, members, output_dir, path, win)
             IN  [status |-> u.status, opener |-> opener, root |-> u.root,
                  fs |-> u.fs]

----------------------------------------------------------------------------
(* git: the remotes, and git_clone_shallow.  A repository directory holds  *)
(* a .git node with its remote, the commits in its object store and HEAD;  *)
(* the work tree holds one file f that names the commit it came from, a    *)
(* .gitmodules file and an empty directory per submodule.                  *)

\* Submodules of msquic at each pinned commit
NSub == 2

C1 == <<"c", "1">>
C2 == <<"c", "2">>
C3 == <<"c", "3">>
NoCommit == <<>>

NoUrl == <<"none">>
ParentUrl == <<"msquic">>
NestedUrl == <<"nested">>
Ticks(i) == [k \in 1..i |-> "i"]
SubUrl(i) == <<"u">> \o Ticks(i)
\* the submodule paths m/si, m/sii, ... as git prints them
SubPath(i) == <<"m", "/", "s">> \o Ticks(i)

GitSeg == <<".git">>
ModSeg == <<".gitmodules">>
FileSeg == <<"f">>

GitNode(origin, objects, head) ==
    [kind |-> "git", mode |-> 0,
     data |-> [origin |-> origin, objects |-> objects, head |-> head]]

\* The gitlinks of a commit's tree: msquic pins each submodule at the commit
\* of its own number; the first submodule has a submodule of its own
Gitlinks(url, c) ==
    IF url = ParentUrl THEN [i \in 1..NSub |-> [hash |-> c, path |-> SubPath(i)]]
    ELSE IF url = SubUrl(1) THEN <<[hash |-> C1, path |-> <<"t">>]>>
    ELSE <<>>

\* .gitmodules of a commit's tree: submodule.<path>.url
GitModules(url, c) ==
    IF url = ParentUrl THEN {[path |-> SubPath(i), url |-> SubUrl(i)] : i \in 1..NSub}
    ELSE IF url = SubUrl(1) THEN {[path |-> <<"t">>, url |-> NestedUrl]}
    ELSE {}

\* git reset --hard FETCH_HEAD: HEAD and the work tree are the commit's
RECURSIVE MakeLinkDirs(_, _, _)
MakeLinkDirs(f, dir, links) ==
    IF links = <<>> THEN f
    ELSE MakeLinkDirs(MakeDirs(f, JoinStr(dir, Head(links).path)), dir, Tail(links))

ResetHard(f, dir, c) ==
    LET gd == dir \o <<GitSeg>>
        url == f[gd].data.origin
        f1 == [f EXCEPT ![gd].data.head = c]
        f2 == Put(f1, dir \o <<FileSeg>>,
                  FileNode([url |-> url, commit |-> c], DefaultFileMode))
        f3 == IF GitModules(url, c) = {} THEN f2
              ELSE Put(f2, dir \o <<ModSeg>>,
                       FileNode(GitModules(url, c), DefaultFileMode))
    IN  MakeLinkDirs(f3, dir, Gitlinks(url, c))

\* lines 338-342 in a directory that exists: init, remote add, fetch, reset.
\* net_ok: the fetch reaches the remote.
GitCommands(f, url, hash, dir, net_ok) ==
    LET gd == dir \o <<GitSeg>>
        f3 == IF gd \in DOMAIN f THEN f
              ELSE Put(f, gd, GitNode(NoUrl, {}, NoCommit))
    IN  IF f3[gd].data.origin # NoUrl
        THEN [ok |-> FALSE, fs |-> f3]   \* remote origin already exists
        ELSE LET f4 == [f3 EXCEPT ![gd].data.origin = url] IN
             IF ~net_ok THEN [ok |-> FALSE, fs |-> f4]
             ELSE [ok |-> TRUE,
                   fs |-> ResetHard([f4 EXCEPT ![gd].data.objects = @ \cup {hash}],
                                    dir, hash)]

\* a clone that does not clear the directory first
git_clone_shallow_keep(f, url, hash, dir, net_ok) ==
    LET f2 == mkdir_p(f, dir) IN
    IF ~IsDir(f2, dir) THEN [ok |-> FALSE, fs |-> f2]
    ELSE GitCommands(f2, url, hash, dir, net_ok)

git_clone_shallow(f, url, hash, dir, net_ok) ==
    LET f2 == mkdir_p(rm_rf(f, dir), dir) IN
    IF ~IsDir(f2, dir) THEN [ok |-> FALSE, fs |-> f2]
    ELSE GitCommands(f2, url, hash, dir, net_ok)

\* git submodule status in a fresh clone: one line "-<hash> <path>" per
\* gitlink of HEAD
StatusLine(link) == <<"-">> \o link.hash \o <<" ">> \o link.path

SubmoduleStatus(f, dir) ==
    LET g == f[dir \o <<GitSeg>>].data
        links == Gitlinks(g.origin, g.head)
    IN  [i \in 1..Len(links) |-> StatusLine(links[i])]

\* line 452: line[1:].split()
ParseStatusLine(line) ==
    LET rest == Tail(line)
        n == Find(rest, " ")
    IN  [hash |-> SubSeq(rest, 1, n), path |-> SubSeq(rest, n + 2, Len(rest))]

\* line 456: git config -f .gitmodules submodule.<path>.url
ConfigUrl(f, dir, path) ==
    LET m == dir \o <<ModSeg>> IN
    IF m \in DOMAIN f /\ \E e \in f[m].data : e.path = path
    THEN (CHOOSE e \in f[m].data : e.path = path).url
    ELSE NoUrl

----------------------------------------------------------------------------
(* versioned: the version-gated step decorator.                            *)

\* The ignore_version keyword: not passed, passed False, passed True
KwValues == {"unset", "false", "true"}

\* The version file of the decorated step
MarkerPath == << <<"v">> >>

MarkerState(f) ==
    IF MarkerPath \in DOMAIN f
    THEN [exists |-> TRUE, data |-> f[MarkerPath].data]
    ELSE [exists |-> FALSE, data |-> <<>>]

\* a gate that never removes the version file
GateInvalidateNever(f, kw) == f

\* lines 178-181: ignore_version=True removes the version file first
GateInvalidate(f, kw) == IF kw = "true" THEN rm_rf(f, MarkerPath) ELSE f

\* a comparison that forgets to strip
GateHitExact(f, version) ==
    /\ PathExists(f, MarkerPath)
    /\ f[MarkerPath].data = version

\* lines 183-186: the version file exists and holds the version
GateHit(f, version) ==
    /\ PathExists(f, MarkerPath)
    /\ Strip(f[MarkerPath].data) = Strip(version)

\* lines 190-191: the version is written as given
GateWrite(f, version) == Put(f, MarkerPath, FileNode(version, DefaultFileMode))

\* a wrapper that records the version before running the step
VersionedWriteFirst(f, version, kw, fails) ==
    LET f1 == GateInvalidate(f, kw) IN
    IF GateHit(f1, version)
    THEN [fs |-> f1, seen |-> MarkerState(f1), invoked |-> 0,
          raised |-> FALSE, wrote |-> FALSE]
    ELSE [fs |-> GateWrite(f1, version), seen |-> MarkerState(f1), invoked |-> 1,
          raised |-> fails, wrote |-> TRUE]

\* One call of the wrapper around a step that fails or not.  seen is the
\* version file as the comparison finds it; invoked counts calls of func.
Versioned(f, version, kw, fails) ==
    LET f1 == GateInvalidate(f, kw) IN
    IF GateHit(f1, version)
    THEN [fs |-> f1, seen |-> MarkerState(f1), invoked |-> 0,
          raised |-> FALSE, wrote |-> FALSE]
    ELSE IF fails
    THEN [fs |-> f1, seen |-> MarkerState(f1), invoked |-> 1,
          raised |-> TRUE, wrote |-> FALSE]
    ELSE [fs |-> GateWrite(f1, version), seen |-> MarkerState(f1), invoked |-> 1,
          raised |-> FALSE, wrote |-> TRUE]

----------------------------------------------------------------------------
(* The decorated steps, called run after run.                              *)

\* Longest version string drawn as an input
MaxVerLen == 2

VersionChars == {"1", "0", " "}
Versions == StringsUpTo(VersionChars, MaxVerLen)

InitGate ==
    /\ fs = EmptyFs
    /\ IdleGate
    /\ IdleRoot
    /\ IdleGit
    /\ IdleRace
    /\ IdleExtract

VersionedCall ==
    \E version \in Versions, kw \in KwValues, fails \in BOOLEAN :
    \E r \in {Versioned(fs, version, kw, fails)} :
        /\ fs' = r.fs
        /\ gateLast' = [called |-> TRUE, version |-> version, kw |-> kw,
                        before |-> MarkerState(fs), seen |-> r.seen,
                        invoked |-> r.invoked, raised |-> r.raised,
                        wrote |-> r.wrote]
        /\ UNCHANGED <<rootVars, extractVars, gitVars, raceVars>>

NextGate == VersionedCall

Spec == InitGate /\ [][NextGate]_vars

----------------------------------------------------------------------------
(* Root detection over the member lists of tar and zip archives.           *)

\* Longest member name and longest member list drawn as inputs
MaxNameLen == 3
MaxInfos == 2

NameChars == {"d", "/"}
MemberNames == StringsUpTo(NameChars, MaxNameLen)

RootMembers == [name : MemberNames, type : {"dir", "file"}]

InitRoot ==
    /\ fs = EmptyFs
    /\ IdleGate
    /\ IdleRoot
    /\ IdleGit
    /\ IdleRace
    /\ IdleExtract

\* The archive lists one more member
AddMember ==
    /\ rootResult.by = "none"
    /\ Len(infos) < MaxInfos
    /\ \E e \in RootMembers : infos' = Append(infos, e)
    /\ UNCHANGED <<fs, gateVars, extractVars, gitVars, raceVars, rootResult>>

DetectTar ==
    /\ rootResult.by = "none"
    /\ rootResult' = [by |-> "tar", res |-> is_single_dir_tar(infos)]
    /\ UNCHANGED <<fs, gateVars, extractVars, gitVars, raceVars, infos>>

DetectZip ==
    /\ rootResult.by = "none"
    /\ rootResult' = [by |-> "zip", res |-> is_single_dir_zip(infos)]
    /\ UNCHANGED <<fs, gateVars, extractVars, gitVars, raceVars, infos>>

NextRoot == AddMember \/ DetectTar \/ DetectZip

SpecRoot == InitRoot /\ [][NextRoot]_vars

----------------------------------------------------------------------------
(* The calls of extract.                                                   *)

\* Most members of an archive drawn as an input
MaxMembers == 4

\* install_dir, made by mkdir_p before anything is extracted into it
OutDir == << <<"o">> >>

\* output_dirname: a name of its own, or the archive's root directory name
OutNames == {<<"n">>, <<"d">>}

\* A directory d, two files in it and a loose file L at the archive root
TarUniverse ==
    {TarMember(<<"d">>, "dir", <<>>),
     TarMember(<<"d", "/", "a">>, "file", <<"1">>),
     TarMember(<<"d", "/", "b">>, "file", <<"1">>),
     TarMember(<<"L">>, "file", <<"1">>)}

ZipUniverse ==
    {ZipMember(<<"d", "/">>, DirMode, <<>>),
     ZipMember(<<"d", "/", "a">>, RegMode, <<"2">>),
     ZipMember(<<"d", "/", "b">>, ExeMode, <<"2">>),
     ZipMember(<<"L">>, RegMode, <<"2">>)}

\* The member lists over a universe: no member twice, any order
Listings(universe, n) ==
    {z \in UNION {[1..k -> universe] : k \in 0..n} :
        \A i, j \in 1..Len(z) : i # j => z[i] # z[j]}

ArchiveName(suffix) == <<"x">> \o suffix
OtherSuffix == <<".", "t", "g", "z">>

\* Archive files named for their format, extracted without a hint
NamedCalls ==
    [file : {ArchiveName(TarGzSuffix)}, fmt : {"tar"}, filetype : {"none"},
     members : Listings(TarUniverse, MaxMembers)]
    \cup
    [file : {ArchiveName(ZipSuffix)}, fmt : {"zip"}, filetype : {"none"},
     members : Listings(ZipUniverse, MaxMembers)]

\* Every file name with every hint, on one archive of each format
HintedCalls ==
    [file : {ArchiveName(TarGzSuffix), ArchiveName(ZipSuffix),
             ArchiveName(OtherSuffix)},
     fmt : {"tar"}, filetype : {"none", "gzip", "zip", "tar"},
     members : {<<TarMember(<<"L">>, "file", <<"1">>)>>}]
    \cup
    [file : {ArchiveName(TarGzSuffix), ArchiveName(ZipSuffix),
             ArchiveName(OtherSuffix)},
     fmt : {"zip"}, filetype : {"none", "gzip", "zip", "tar"},
     members : {<<ZipMember(<<"L">>, RegMode, <<"2">>)>>}]

ExtractCalls == NamedCalls \cup HintedCalls

\* What install_dir may hold when the program starts: nothing, or what an
\* earlier run or the user left at the destination
InitialTrees ==
    {MakeDirs(EmptyFs, OutDir),
     Put(MakeDirs(EmptyFs, OutDir \o << <<"n">> >>),
         OutDir \o << <<"n">>, <<"z">> >>, FileNode(<<"0">>, DefaultFileMode)),
     Put(MakeDirs(EmptyFs, OutDir), OutDir \o << <<"n">> >>,
         FileNode(<<"0">>, DefaultFileMode))}

\* A step extracts to one output_dirname, run after run
InitExtract ==
    /\ fs \in InitialTrees
    /\ IdleGate
    /\ IdleRoot
    /\ IdleGit
    /\ IdleRace
    /\ windows = FALSE
    /\ zlast = NoZipCall
    /\ \E name \in OutNames : xlast = [NoExtractCall EXCEPT !.name = name]

\* stale: the paths the destination held before the call and not after it
ExtractCall ==
    \E c \in ExtractCalls :
    \E r \in {extract(fs, c.file, c.fmt, c.members, OutDir, xlast.name,
                       c.filetype, windows)} :
        /\ fs' = r.fs
        /\ xlast' = [called |-> TRUE, file |-> c.file, fmt |-> c.fmt,
                     filetype |-> c.filetype,
                     members |-> {c.members[i] : i \in 1..Len(c.members)},
                     name |-> xlast.name,
                     stale |-> Below(fs, OutDir \o <<xlast.name>>)
                                 \ Below(r.fs, OutDir \o <<xlast.name>>),
                     status |-> r.status, opener |-> r.opener,
                     root |-> r.root]
        /\ UNCHANGED <<gateVars, rootVars, gitVars, raceVars, windows, zlast>>

NextExtract == ExtractCall

SpecExtract == InitExtract /\ [][NextExtract]_vars

----------------------------------------------------------------------------
(* Zip files with symbolic links, extracted by extract.                    *)

\* Most members of a zip file drawn as an input
MaxZipMembers == 3

\* A file f and a link l to it; a link k to a g that no archive holds; and
\* a directory d with a file f and a link l to that file
ZipLinkUniverse ==
    {ZipMember(<<"f">>, RegMode, <<"2">>),
     ZipMember(<<"l">>, LnkMode, <<"f">>),
     ZipMember(<<"k">>, LnkMode, <<"g">>),
     ZipMember(<<"d", "/">>, DirMode, <<>>),
     ZipMember(<<"d", "/", "f">>, ExeMode, <<"2">>),
     ZipMember(<<"d", "/", "l">>, LnkMode, <<"f">>)}

ZipListings == Listings(ZipLinkUniverse, MaxZipMembers)

ZipDest == OutDir \o << <<"n">> >>

InitZip ==
    /\ fs = MakeDirs(EmptyFs, OutDir)
    /\ IdleGate
    /\ IdleRoot
    /\ IdleGit
    /\ IdleRace
    /\ windows \in BOOLEAN
    /\ xlast = NoExtractCall
    /\ zlast = NoZipCall

\* extract('x.zip', install_dir, 'n')
ExtractZipCall ==
    \E z \in ZipListings :
    \E r \in {extract(fs, ArchiveName(ZipSuffix), "zip", z, OutDir, <<"n">>,
                       "none", windows)} :
        /\ fs' = r.fs
        /\ zlast' = [called |-> TRUE, listing |-> z, status |-> r.status,
                     root |-> r.root]
        /\ UNCHANGED <<gateVars, rootVars, gitVars, raceVars, windows, xlast>>

NextZip == ExtractZipCall

SpecZip == InitZip /\ [][NextZip]_vars

----------------------------------------------------------------------------
(* main, lines 439-457: msquic is cloned at the pinned commit, then each   *)
(* of its submodules.  The program is run again and again.                 *)

SourceDir == << <<"src">> >>
MsquicDir == SourceDir \o << <<"msquic">> >>

\* MSQUIC_VERSION of the VERSION file
Pins == {C1, C2, C3}

\* What msquic_source_dir is when the program first runs
InitialSources ==
    {EmptyFs,
     Put(MakeDirs(EmptyFs, SourceDir), MsquicDir, FileNode(<<"0">>, DefaultFileMode)),
     Put(MakeDirs(EmptyFs, MsquicDir), MsquicDir \o << <<"z">> >>,
         FileNode(<<"0">>, DefaultFileMode)),
     Put(MakeDirs(EmptyFs, JoinStr(MsquicDir, SubPath(1))),
         JoinStr(MsquicDir, SubPath(1)) \o << <<"z">> >>,
         FileNode(<<"0">>, DefaultFileMode)),
     Put(MakeDirs(EmptyFs, MsquicDir), MsquicDir \o <<GitSeg>>,
         GitNode(ParentUrl, {C1}, NoCommit))}

PriorKind(f) ==
    IF MsquicDir \notin DOMAIN f THEN "absent"
    ELSE IF f[MsquicDir].kind # "dir" THEN "file"
    ELSE IF MsquicDir \o <<GitSeg>> \in DOMAIN f THEN "checkout"
    ELSE "junk"

InitGit ==
    /\ fs \in InitialSources
    /\ IdleGate
    /\ IdleRoot
    /\ IdleExtract
    /\ IdleGit
    /\ IdleRace

\* lines 379-394: a run starts; the directories are made, the pin is read
StartRun ==
    /\ git.pc \in {"idle", "done", "failed"}
    /\ \E pin \in Pins :
         git' = [pc |-> "parent", pin |-> pin, todo |-> <<>>, url |-> NoUrl,
                 prior |-> PriorKind(fs), fetched |-> 0]
    /\ fs' = mkdir_p(fs, SourceDir)
    /\ UNCHANGED <<gateVars, rootVars, extractVars, raceVars>>

\* line 445
CloneParent ==
    /\ git.pc = "parent"
    /\ \E net_ok \in BOOLEAN :
       \E r \in {git_clone_shallow(fs, ParentUrl, git.pin, MsquicDir, net_ok)} :
         /\ fs' = r.fs
         /\ git' = [git EXCEPT !.pc = IF r.ok THEN "status" ELSE "failed",
                               !.fetched = IF r.ok THEN 1 ELSE 0]
    /\ UNCHANGED <<gateVars, rootVars, extractVars, raceVars>>

\* lines 451-452
ListSubmodules ==
    /\ git.pc = "status"
    /\ \E out \in {SubmoduleStatus(fs, MsquicDir)} :
         git' = [git EXCEPT
                   !.todo = [i \in 1..Len(out) |-> ParseStatusLine(out[i])],
                   !.pc = IF out = <<>> THEN "done" ELSE "lookup"]
    /\ UNCHANGED <<fs, gateVars, rootVars, extractVars, raceVars>>

\* line 456, for the next submodule of the loop
LookupUrl ==
    /\ git.pc = "lookup"
    /\ \E u \in {ConfigUrl(fs, MsquicDir, Head(git.todo).path)} :
         git' = [git EXCEPT !.url = u,
                            !.pc = IF u = NoUrl THEN "failed" ELSE "clone"]
    /\ UNCHANGED <<fs, gateVars, rootVars, extractVars, raceVars>>

\* line 457, with msquic_source_dir as the working directory
CloneSubmodule ==
    /\ git.pc = "clone"
    /\ \E net_ok \in BOOLEAN :
       \E r \in {git_clone_shallow(fs, git.url, Head(git.todo).hash,
                                   JoinStr(MsquicDir, Head(git.todo).path),
                                   net_ok)} :
         /\ fs' = r.fs
         /\ git' = [git EXCEPT
                      !.todo = IF r.ok THEN Tail(@) ELSE @,
                      !.fetched = IF r.ok THEN @ + 1 ELSE @,
                      !.pc = IF ~r.ok THEN "failed"
                             ELSE IF Tail(git.todo) = <<>> THEN "done"
                             ELSE "lookup"]
    /\ UNCHANGED <<gateVars, rootVars, extractVars, raceVars>>

NextGit == StartRun \/ CloneParent \/ ListSubmodules \/ LookupUrl \/ CloneSubmodule

SpecGit == InitGit /\ [][NextGit]_vars

----------------------------------------------------------------------------
(* Calls of one versioned step that run at the same time, each without     *)
(* ignore_version or with ignore_version=False, so that lines 178-181      *)
(* remove nothing.  A call advances one filesystem operation at a time.    *)

\* Calls in flight at once
NProcs == 2

Procs == 1..NProcs

\* The version both calls are made with
RaceVersions == {<<"1">>, <<"1", " ">>}

\* The version file when the calls start: absent, empty, stale, current
RaceMarkers ==
    {EmptyFs} \cup
    {Put(EmptyFs, MarkerPath, FileNode(d, DefaultFileMode)) :
        d \in {<<>>, <<"0">>, <<"1">>}}

UnforcedKw == KwValues \ {"true"}

NoObservation == [exists |-> FALSE, data |-> <<>>]

InitRace ==
    /\ fs \in RaceMarkers
    /\ \E version \in RaceVersions, kws \in [Procs -> UnforcedKw] :
         race = [version |-> version, start |-> MarkerState(fs),
                 procs |-> [p \in Procs |->
                              [pc |-> "exists", kw |-> kws[p],
                               seen |-> NoObservation, missed |-> FALSE,
                               ran |-> 0, wrote |-> FALSE]]]
    /\ IdleGate
    /\ IdleRoot
    /\ IdleExtract
    /\ IdleGit

\* an exists test that waits while another call is between its test and
\* the end of its write
RaceExistsLocked(p) ==
    /\ race.procs[p].pc = "exists"
    /\ \A q \in Procs \ {p} :
          race.procs[q].pc \notin {"read", "call", "open", "flush"}
    /\ race' = [race EXCEPT !.procs[p] =
                  IF PathExists(fs, MarkerPath)
                  THEN [@ EXCEPT !.pc = "read"]
                  ELSE [@ EXCEPT !.pc = "call", !.missed = TRUE,
                                 !.seen = MarkerState(fs)]]
    /\ UNCHANGED <<fs, gateVars, rootVars, extractVars, gitVars>>

\* line 183: os.path.exists(version_file)
RaceExists(p) ==
    /\ race.procs[p].pc = "exists"
    /\ race' = [race EXCEPT !.procs[p] =
                  IF PathExists(fs, MarkerPath)
                  THEN [@ EXCEPT !.pc = "read"]
                  ELSE [@ EXCEPT !.pc = "call", !.missed = TRUE,
                                 !.seen = MarkerState(fs)]]
    /\ UNCHANGED <<fs, gateVars, rootVars, extractVars, gitVars>>

\* lines 184-187: the file is read and compared; equal returns
RaceRead(p) ==
    /\ race.procs[p].pc = "read"
    /\ race' = [race EXCEPT !.procs[p] =
                  IF GateHit(fs, race.version)
                  THEN [@ EXCEPT !.pc = "done", !.seen = MarkerState(fs)]
                  ELSE [@ EXCEPT !.pc = "call", !.missed = TRUE,
                                 !.seen = MarkerState(fs)]]
    /\ UNCHANGED <<fs, gateVars, rootVars, extractVars, gitVars>>

\* line 188: func is called; it returns or raises
RaceCall(p) ==
    /\ race.procs[p].pc = "call"
    /\ \E fails \in BOOLEAN :
         race' = [race EXCEPT !.procs[p].ran = @ + 1,
                              !.procs[p].pc = IF fails THEN "error" ELSE "open"]
    /\ UNCHANGED <<fs, gateVars, rootVars, extractVars, gitVars>>

\* line 190: open(version_file, 'w') creates the file or empties it
RaceOpen(p) ==
    /\ race.procs[p].pc = "open"
    /\ fs' = Put(fs, MarkerPath, FileNode(<<>>, DefaultFileMode))
    /\ race' = [race EXCEPT !.procs[p].pc = "flush"]
    /\ UNCHANGED <<gateVars, rootVars, extractVars, gitVars>>

\* line 191 and the end of the with block: the version goes to the start
\* of the file, over whatever another call has put there since line 190
RaceFlush(p) ==
    /\ race.procs[p].pc = "flush"
    /\ LET old == fs[MarkerPath].data
           new == race.version \o SubSeq(old, Len(race.version) + 1, Len(old))
       IN  fs' = Put(fs, MarkerPath, FileNode(new, DefaultFileMode))
    /\ race' = [race EXCEPT !.procs[p].pc = "done", !.procs[p].wrote = TRUE]
    /\ UNCHANGED <<gateVars, rootVars, extractVars, gitVars>>

NextRace ==
    \E p \in Procs :
        \/ RaceExists(p)
        \/ RaceRead(p)
        \/ RaceCall(p)
        \/ RaceOpen(p)
        \/ RaceFlush(p)

SpecRace == InitRace /\ [][NextRace]_vars

----------------------------------------------------------------------------
(* Claims about versioned.                                                 *)

TrimEqual(m, version) == m.exists /\ Strip(m.data) = Strip(version)

\* What claim C1 says of one call that is neither forced nor failing
C1PerCall ==
    (gateLast.called /\ gateLast.kw # "true" /\ ~gateLast.raised) =>
        IF TrimEqual(gateLast.before, gateLast.version)
        THEN /\ gateLast.invoked = 0
             /\ ~gateLast.wrote
             /\ MarkerState(fs) = gateLast.before
        ELSE /\ gateLast.invoked = 1
             /\ gateLast.wrote
             /\ MarkerState(fs) = [exists |-> TRUE, data |-> gateLast.version]

\* Two consecutive unforced, non-failing calls: the second skips when it
\* has the first's version, and runs the step when its trimmed version differs
C1Consecutive ==
    (/\ gateLast.called /\ gateLast.kw # "true" /\ ~gateLast.raised
     /\ gateLast'.kw # "true" /\ ~gateLast'.raised) =>
        /\ (gateLast'.version = gateLast.version => gateLast'.invoked = 0)
        /\ (Strip(gateLast'.version) # Strip(gateLast.version)
                => gateLast'.invoked = 1)

\* C1: an unforced, non-failing call skips the step (no invocation, no
\* write of the version file) exactly when the version file exists and its
\* trimmed content equals the trimmed version; otherwise it invokes the step
\* once and then writes the version.  So of two consecutive calls with the
\* same version the second never invokes, and a changed version invokes.
C1_SkipIffTrimEqual == [][C1PerCall' /\ C1Consecutive]_vars

\* A call skipped although the version file's text differs from the version
\* argument (they agree only after trimming)
C1_Witness ==
    /\ gateLast.called /\ gateLast.kw = "false" /\ ~gateLast.raised
    /\ gateLast.invoked = 0
    /\ gateLast.before.exists
    /\ gateLast.before.data # gateLast.version
    /\ Strip(gateLast.version) = <<"1">>

\* The retry after a failure: the same call again invokes the step again
C2Retry ==
    (/\ gateLast.called /\ gateLast.raised
     /\ gateLast'.version = gateLast.version /\ gateLast'.kw = gateLast.kw) =>
        gateLast'.invoked = 1

\* The original statement of C2: after a failing step the version file is
\* what it was before the call, for every ignore_version
C2_Original_MarkerUntouched ==
    [][((gateLast'.called /\ gateLast'.raised) =>
            MarkerState(fs') = gateLast'.before) /\ C2Retry]_vars

\* C2 (amended): when the step fails the error propagates, nothing is
\* written, and the version file is what the call found after the forced
\* removal: unchanged without ignore_version, absent with it; the same call
\* made again invokes the step again.
C2_FailureLeavesMarker ==
    [][((gateLast'.called /\ gateLast'.invoked = 1 /\ gateLast'.raised) =>
            /\ ~gateLast'.wrote
            /\ MarkerState(fs') =
                 (IF gateLast'.kw = "true"
                  THEN [exists |-> FALSE, data |-> <<>>]
                  ELSE gateLast'.before))
       /\ C2Retry]_vars

\* A failing step with a version file of another version in place
C2_Witness ==
    /\ gateLast.called /\ gateLast.raised /\ gateLast.kw = "unset"
    /\ gateLast.before.exists
    /\ MarkerState(fs) = gateLast.before

\* C3: a call with ignore_version=True always invokes the step, whatever
\* the version file held, and the comparison finds no version file.
C3_ForceAlwaysInvokes ==
    (gateLast.called /\ gateLast.kw = "true") =>
        /\ gateLast.invoked = 1
        /\ ~gateLast.seen.exists

\* A forced call on a version file that holds the very version asked for
C3_Witness ==
    /\ gateLast.called /\ gateLast.kw = "true"
    /\ TrimEqual(gateLast.before, gateLast.version)
    /\ gateLast.invoked = 1

----------------------------------------------------------------------------
(* Claims about root detection.                                            *)

\* The members as root detection reads them under the flavour it ran as
SeenMembers ==
    [i \in 1..Len(infos) |->
        [name |-> infos[i].name,
         isdir |-> IF rootResult.by = "zip" THEN IsDirZip(infos[i])
                   ELSE IsDirTar(infos[i])]]

\* A member's first path segment, its trailing separators stripped
FirstSegment(name) ==
    LET s == RStripSet(name, {"/"}) IN
    IF \E i \in 1..Len(s) : s[i] = "/"
    THEN SubSeq(s, 1, (CHOOSE i \in 1..Len(s) :
                          s[i] = "/" /\ \A j \in 1..(i - 1) : s[j] # "/") - 1)
    ELSE s

AtArchiveRoot(name) == \A i \in 1..Len(RStripSet(name, {"/"})) :
                           RStripSet(name, {"/"})[i] # "/"

RootSegments == {FirstSegment(SeenMembers[i].name) : i \in 1..Len(infos)}

RootFilePresent ==
    \E i \in 1..Len(infos) :
        AtArchiveRoot(SeenMembers[i].name) /\ ~SeenMembers[i].isdir

\* C5: root detection returns d when every member's first segment is d and
\* every member at the archive root is a directory; None for two distinct
\* first segments, for a non-directory at the root and for an empty archive;
\* and every reordering of the members gives the same answer.
C5_RootDetection ==
    rootResult.by # "none" =>
        /\ rootResult.res =
             (IF infos = <<>> \/ Cardinality(RootSegments) >= 2 \/ RootFilePresent
              THEN NoneDir
              ELSE SomeDir(CHOOSE d \in RootSegments : TRUE))
        /\ \A p \in Permutations(1..Len(infos)) :
             is_single_dir([i \in 1..Len(infos) |-> SeenMembers[p[i]]])
                 = rootResult.res

\* Two members under one directory, the deeper one listed first
C5_Witness ==
    /\ rootResult.by = "zip"
    /\ rootResult.res = SomeDir(<<"d">>)
    /\ Len(infos) = 2
    /\ infos[1].name = <<"d", "/", "d">>
    /\ infos[2].name = <<"d", "/">>

----------------------------------------------------------------------------
(* Claims about extract.                                                   *)

Dest == OutDir \o <<xlast.name>>

ExtractedOk == xlast.called /\ xlast.status = "ok"

\* The archive of the claim: d, d/a, d/b and a loose file L, in any order,
\* as a tarball (d) or as a zip file (d/)
C4Case == ExtractedOk /\ xlast.members \in {TarUniverse, ZipUniverse}

\* The original statement of C4: the root directory is stripped and the
\* loose file lands beside the destination
C4_Original_LooseFileBeside ==
    C4Case =>
        /\ Dest \o << <<"a">> >> \in DOMAIN fs
        /\ Dest \o << <<"b">> >> \in DOMAIN fs
        /\ OutDir \o << <<"L">> >> \in DOMAIN fs
        /\ Dest \o << <<"L">> >> \notin DOMAIN fs

\* C4 (amended): for an archive holding d, d/a, d/b and a root-level file L,
\* extract finds no single root, strips nothing and unpacks everything under
\* the destination: out/name/d/a, out/name/d/b and out/name/L, and nothing
\* beside the destination.
C4_LooseFileKeepsRoot ==
    C4Case =>
        /\ ~xlast.root.some
        /\ Below(fs, Dest) = {<< <<"d">> >>, << <<"d">>, <<"a">> >>,
                              << <<"d">>, <<"b">> >>, << <<"L">> >>}
        /\ fs[Dest \o << <<"d">>, <<"a">> >>].kind = "file"
        /\ fs[Dest \o << <<"d">>, <<"b">> >>].kind = "file"
        /\ fs[Dest \o << <<"L">> >>].kind = "file"
        /\ OutDir \o << <<"L">> >> \notin DOMAIN fs

\* The zip archive of the claim extracted to the name n
C4_Witness ==
    /\ C4Case
    /\ xlast.fmt = "zip"
    /\ xlast.name = <<"n">>
    /\ Dest \o << <<"L">> >> \in DOMAIN fs

MemberIsDir(e) == IF e.type = "zip" THEN IsDirZip(e) ELSE e.type = "dir"

\* Where a member lands below the destination
Landing(e) ==
    IF xlast.root.some THEN Tail(Split(e.name)) ELSE Split(e.name)

ExpectedBelow ==
    UNION {{SubSeq(Landing(e), 1, k) : k \in 1..Len(Landing(e))} :
              e \in xlast.members}

\* C6: after a call of extract that succeeds, whatever an earlier call or
\* anyone else left there, the destination holds exactly the tree of this
\* call's archive (its root directory stripped when it has a single root):
\* every path below it comes from a member, and every member is there with
\* its kind and content.
C6_DestinationIsArchiveTree ==
    ExtractedOk =>
        /\ Dest \in DOMAIN fs /\ fs[Dest].kind = "dir"
        /\ Below(fs, Dest) = ExpectedBelow
        /\ \A e \in xlast.members :
             Landing(e) # <<>> =>
                IF MemberIsDir(e)
                THEN fs[Dest \o Landing(e)].kind = "dir"
                ELSE /\ fs[Dest \o Landing(e)].kind = "file"
                     /\ fs[Dest \o Landing(e)].data = e.data

\* A second, single-rooted archive without b extracted over a tree that
\* held b: b is gone
C6_Witness ==
    /\ ExtractedOk
    /\ xlast.root.some
    /\ xlast.name = <<"n">>
    /\ << <<"b">> >> \in xlast.stale
    /\ << <<"a">> >> \in Below(fs, Dest)

\* C7 as stated: a hint, when given, decides the format; the suffix decides
\* only without a hint; without a hint and with another suffix the call
\* raises and the filesystem is as before.
C7_Original_HintDecides ==
    [][xlast'.called =>
          /\ (xlast'.filetype = "gzip" => xlast'.opener = "tar")
          /\ (xlast'.filetype = "zip" => xlast'.opener = "zip")
          /\ (xlast'.filetype = "none" =>
                xlast'.opener =
                    (IF EndsWith(xlast'.file, TarGzSuffix) THEN "tar"
                     ELSE IF EndsWith(xlast'.file, ZipSuffix) THEN "zip"
                     ELSE "none"))
          /\ (xlast'.opener = "none" =>
                xlast'.status = "unsupported" /\ fs' = fs)]_vars

----------------------------------------------------------------------------
(* Claims about zip post-processing.                                       *)

ZipMembers == {zlast.listing[i] : i \in 1..Len(zlast.listing)}

\* Where a member of the last zip file lands on disk
ZipLanding(e) ==
    ZipDest \o (IF zlast.root.some THEN Tail(Split(e.name)) ELSE Split(e.name))

\* The member a link member names: a regular file of the archive in the
\* link's own directory
IsTargetOf(t, e) ==
    /\ ~IsDirZip(t)
    /\ ~IsSymlinkMode(t.mode)
    /\ Split(t.name) = Parent(Split(e.name)) \o Split(e.data)

UnpackedOnPosix == zlast.called /\ zlast.status = "ok" /\ ~windows

\* C8: off Windows, a zip member whose mode marks a symbolic link and whose
\* target is a regular file of the archive beside it ends as a real symbolic
\* link to that file, wherever the link stands in the member order.
C8_SymlinkRestored ==
    UnpackedOnPosix =>
        \A e \in ZipMembers :
            (/\ ~IsDirZip(e)
             /\ IsSymlinkMode(e.mode)
             /\ \E t \in ZipMembers : IsTargetOf(t, e)) =>
                /\ ZipLanding(e) \in DOMAIN fs
                /\ fs[ZipLanding(e)] = LinkNode(e.data)
                /\ \E t \in ZipMembers :
                     /\ IsTargetOf(t, e)
                     /\ Stat(fs, ZipLanding(e)) = [ok |-> TRUE, path |-> ZipLanding(t)]
                     /\ fs[ZipLanding(t)].kind = "file"
                     /\ fs[ZipLanding(t)].data = t.data

\* The link is listed before the file it names and is a link on disk
C8_Witness ==
    /\ UnpackedOnPosix
    /\ Len(zlast.listing) >= 2
    /\ zlast.listing[1].name = <<"l">>
    /\ zlast.listing[2].name = <<"f">>
    /\ fs[ZipDest \o << <<"l">> >>].kind = "link"

\* C10 as stated: off Windows every member that is neither a directory nor
\* a symbolic link has, on disk, the low nine bits of its stored mode
C10_Original_StoredPermissions ==
    UnpackedOnPosix =>
        \A e \in ZipMembers :
            (~IsDirZip(e) /\ ~IsSymlinkMode(e.mode)) =>
                /\ ZipLanding(e) \in DOMAIN fs
                /\ fs[ZipLanding(e)].mode = e.mode % PermMask

----------------------------------------------------------------------------
(* Claims about the shallow clone of msquic and its submodules.            *)

SubDir(i) == JoinStr(MsquicDir, SubPath(i))

\* The directories that hold a repository
Checkouts == {Parent(p) : p \in {q \in DOMAIN fs : q[Len(q)] = GitSeg}}

\* dir holds the depth-1 checkout of hash from url
ShallowCheckout(dir, url, hash) ==
    /\ dir \o <<GitSeg>> \in DOMAIN fs
    /\ fs[dir \o <<GitSeg>>].data =
           [origin |-> url, objects |-> {hash}, head |-> hash]
    /\ dir \o <<FileSeg>> \in DOMAIN fs
    /\ fs[dir \o <<FileSeg>>].data = [url |-> url, commit |-> hash]

\* Everything below msquic_source_dir after a complete run: msquic's tree,
\* each submodule's tree in its directory, and the empty directory of the
\* first submodule's own submodule
ExpectedSourceTree ==
    {<<GitSeg>>, <<FileSeg>>, <<ModSeg>>, << <<"m">> >>}
    \cup UNION {{Split(SubPath(i)),
                 Split(SubPath(i)) \o <<GitSeg>>,
                 Split(SubPath(i)) \o <<FileSeg>>} : i \in 1..NSub}
    \cup {Split(SubPath(1)) \o <<ModSeg>>, Split(SubPath(1)) \o << <<"t">> >>}

\* C9: a run in which every fetch succeeds makes NSub + 1 shallow checkouts:
\* msquic_source_dir and every submodule directory hold exactly the tree of
\* their pinned commit, fetched at depth 1, whatever the directory held
\* before; the submodule of a submodule is not fetched; and a submodule's
\* URL is looked up in a parent checkout that is already at the pinned commit.
C9_ShallowCheckouts ==
    /\ git.pc = "done" =>
         /\ git.fetched = NSub + 1
         /\ Checkouts = {MsquicDir} \cup {SubDir(i) : i \in 1..NSub}
         /\ ShallowCheckout(MsquicDir, ParentUrl, git.pin)
         /\ \A i \in 1..NSub : ShallowCheckout(SubDir(i), SubUrl(i), git.pin)
         /\ Below(fs, MsquicDir) = ExpectedSourceTree
    /\ git.pc \in {"lookup", "clone"} =>
         /\ ShallowCheckout(MsquicDir, ParentUrl, git.pin)
         /\ git.todo # <<>>
    /\ git.pc = "clone" =>
         \E i \in 1..NSub :
            /\ Head(git.todo).path = SubPath(i)
            /\ git.url = SubUrl(i)

\* A complete run at c2 over the checkout an earlier run left
C9_Witness ==
    /\ git.pc = "done"
    /\ git.prior = "checkout"
    /\ git.pin = C2
    /\ Cardinality(Checkouts) = NSub + 1

----------------------------------------------------------------------------
(* Claims about concurrent calls of one versioned step.                    *)

\* The call of p observed a miss and has gone on to the step
PastMiss(p) == race.procs[p].pc \in {"call", "open", "flush", "error"}

Finished(p) == race.procs[p].pc = "done"

\* Calls of func so far, over all the concurrent calls
StepRuns ==
    LET RECURSIVE Sum(_)
        Sum(n) == IF n = 0 THEN 0 ELSE race.procs[n].ran + Sum(n - 1)
    IN  Sum(NProcs)

\* C11: the version gate has no mutual exclusion.  A call about to test the
\* version file is never held back by where the other calls are; what it
\* observes depends on the version file alone; every call that observed a
\* miss invokes the step and, unless the step fails, writes the version
\* file.  So when all the concurrent calls for one version observed a miss
\* and finished, the step has run once per call.
C11_NoMutualExclusion ==
    /\ \A p \in Procs :
         /\ race.procs[p].pc = "exists" => ENABLED RaceExists(p)
         /\ PastMiss(p) =>
              /\ race.procs[p].missed
              /\ ~TrimEqual(race.procs[p].seen, race.version)
         /\ race.procs[p].pc \in {"open", "flush"} =>
              race.procs[p].ran = 1 /\ ~race.procs[p].wrote
         /\ Finished(p) =>
              /\ race.procs[p].missed = ~TrimEqual(race.procs[p].seen, race.version)
              /\ race.procs[p].ran = (IF race.procs[p].missed THEN 1 ELSE 0)
              /\ race.procs[p].wrote = race.procs[p].missed
    /\ (\A p \in Procs : Finished(p) /\ race.procs[p].missed) =>
         /\ StepRuns = NProcs
         /\ MarkerState(fs) = [exists |-> TRUE, data |-> race.version]

\* Two calls for one version, started on an absent or stale version file:
\* both observed a miss, both ran the step, both wrote the version file
C11_Witness ==
    /\ ~TrimEqual(race.start, race.version)
    /\ \A p \in {1, 2} :
         /\ Finished(p)
         /\ race.procs[p].missed
         /\ race.procs[p].ran = 1
         /\ race.procs[p].wrote
    /\ StepRuns >= 2

====
